---- MODULE Spec2Model ----
(***************************************************************************)
(* A model of tensordict/nn/distributions/continuous.py:                   *)
(*   NormalParamExtractor, AddStateIndependentNormalScale and Delta.       *)
(*                                                                         *)
(* A tensor is a record [shape, data]: shape is a sequence of dimension    *)
(* sizes and data maps every index tuple (1-based) to the element there.   *)
(* Real numbers are fixed-point integers in units of 1e-4 (Unit = 1.0).    *)
(***************************************************************************)
EXTENDS Integers, Sequences, FiniteSets, TLC

\* npe, sis, delta: the NormalParamExtractor, AddStateIndependentNormalScale and
\*   Delta objects, None before construction and Some(object) after;
\* latest: the param last given to Delta (by the constructor or by update);
\* call: the call in progress, with its arguments and its result.
VARIABLES npe, sis, delta, latest, call

vars == <<npe, sis, delta, latest, call>>

\* ------------------------------------------------------------------ bounds

\* largest size of the last dimension of an extractor input
MaxLast == 4
\* largest number of pass-through tensors
MaxOthers == 1
\* largest size of a sample_shape dimension
MaxSample == 2
\* entries of Delta parameters and values range over 0..MaxVal
MaxVal == 1

\* ------------------------------------------------------------- basic values

None == <<>>
Some(x) == <<x>>

Max2(a, b) == IF a >= b THEN a ELSE b
Min2(a, b) == IF a <= b THEN a ELSE b
Abs(a) == IF a < 0 THEN 0 - a ELSE a

Front(s) == SubSeq(s, 1, Len(s) - 1)

SetMax(S) == IF S = {} THEN 0 ELSE CHOOSE m \in S : \A x \in S : x <= m

\* the index tuples of a tensor of the given shape
Idx(shape) ==
    { i \in [1..Len(shape) -> 1..SetMax({shape[d] : d \in 1..Len(shape)})] :
        \A d \in 1..Len(shape) : i[d] <= shape[d] }

\* all tensors of a shape with entries in V
TensorsOf(shape, V) ==
    { [shape |-> shape, data |-> d] : d \in [Idx(shape) -> V] }

\* torch.full(shape, value)
full(shape, value) == [shape |-> shape, data |-> [i \in Idx(shape) |-> value]]

Ok(out) == [status |-> "ok", out |-> out]
Raise(kind) == [status |-> "error", error |-> kind]

NoCall == [op |-> "idle"]

\* --------------------------------------------------------- mapping registry

\* 1.0 in fixed-point units
Unit == 10000

KnownMappings == {"softplus", "exp", "relu", "biased_softplus_1.0", "none"}
MappingNames == KnownMappings \cup {"bogus"}

\* softplus(x) = log(1 + exp(x)), tabulated at -1.0, 0.0 and 1.0
softplus(x) ==
    CASE x = 0 - Unit -> 3133
      [] x = 0 -> 6931
      [] x = Unit -> 13133

\* exp(x), tabulated at -1.0, 0.0 and 1.0
exp(x) ==
    CASE x = 0 - Unit -> 3679
      [] x = 0 -> 10000
      [] x = Unit -> 27183

relu(x) == Max2(x, 0)

\* softplus shifted so that the value at 0 is the bias 1.0
biased_softplus_1(x) ==
    CASE x = 0 - Unit -> 4899
      [] x = 0 -> 10000
      [] x = Unit -> 17353

\* mappings(key): whether the registry resolves the name
mappings_raises(key) == key \notin KnownMappings

\* mappings(key)(x), for a name the registry resolves
mappings(key, x) ==
    CASE key = "softplus" -> softplus(x)
      [] key = "exp" -> exp(x)
      [] key = "relu" -> relu(x)
      [] key = "biased_softplus_1.0" -> biased_softplus_1(x)
      [] key = "none" -> x

\* a mapping applied elementwise
MapTensor(key, t) ==
    [shape |-> t.shape, data |-> [i \in DOMAIN t.data |-> mappings(key, t.data[i])]]

\* ------------------------------------------------------------ tensor library

\* a faulty clamp, bounding from above instead of from below (C1 depends on clamp_min)
clamp_max_mutant(t, lb) ==
    [shape |-> t.shape, data |-> [i \in DOMAIN t.data |-> Min2(t.data[i], lb)]]

\* Tensor.clamp_min(lb)
clamp_min(t, lb) ==
    [shape |-> t.shape, data |-> [i \in DOMAIN t.data |-> Max2(t.data[i], lb)]]

\* Tensor.narrow(-1, start, length): entries start+1 .. start+length of the last axis
narrow_last(t, start, length) ==
    LET r == Len(t.shape)
        shp == [t.shape EXCEPT ![r] = length]
    IN [shape |-> shp,
        data |-> [i \in Idx(shp) |-> t.data[[i EXCEPT ![r] = i[r] + start]]]]

\* Tensor.chunk(2, -1) of a tensor with at least one dimension: pieces of
\* ceil(n / 2) entries of the last axis, the last piece with what is left
chunk(t) ==
    LET n == t.shape[Len(t.shape)]
        split == (n + 1) \div 2
        count == IF n = 0 THEN 2 ELSE (n + split - 1) \div split
    IN [k \in 1..count |->
            narrow_last(t, (k - 1) * split, Min2(split, n - (k - 1) * split))]

\* whether Tensor.expand(shape) accepts the shape: aligned from the last
\* dimension, every dimension of t equal to the target's or of size 1
can_expand(t, shape) ==
    LET q == Len(t.shape)
        r == Len(shape)
    IN /\ q <= r
       /\ \A d \in 1..q : t.shape[d] = shape[r - q + d] \/ t.shape[d] = 1

\* Tensor.expand(shape) / Tensor.expand_as(other), when accepted
expand(t, shape) ==
    LET q == Len(t.shape)
        r == Len(shape)
    IN [shape |-> shape,
        data |-> [i \in Idx(shape) |->
                    t.data[[d \in 1..q |-> IF t.shape[d] = 1 THEN 1 ELSE i[r - q + d]]]]]

\* the Python slice s[k:], k possibly negative (and -0 is 0)
slice_from(s, k) ==
    LET start == IF k < 0 THEN Max2(Len(s) + k, 0) ELSE Min2(k, Len(s))
    IN SubSeq(s, start + 1, Len(s))

\* the Python slice s[:-1]
slice_but_last(s) == SubSeq(s, 1, Max2(Len(s) - 1, 0))

\* whether Tensor.all(dim) accepts dim (a 0-dim tensor accepts -1 and 0)
all_accepts(t, dim) ==
    LET r == Len(t.shape)
    IN IF r = 0 THEN dim \in {0 - 1, 0} ELSE dim >= 0 - r /\ dim < r

\* Tensor.all(dim) of a boolean tensor, when accepted: that axis is reduced away
all(t, dim) ==
    LET r == Len(t.shape)
        axis == IF dim < 0 THEN r + dim + 1 ELSE dim + 1
        shp == [d \in 1..(r - 1) |-> IF d < axis THEN t.shape[d] ELSE t.shape[d + 1]]
        put(i, k) == [d \in 1..r |-> IF d < axis THEN i[d]
                                     ELSE IF d = axis THEN k ELSE i[d - 1]]
    IN IF r = 0 THEN t
       ELSE [shape |-> shp,
             data |-> [i \in Idx(shp) |->
                         \A k \in 1..t.shape[axis] : t.data[put(i, k)]]]

\* np.inf, as a number above every finite entry
Inf == 1000000000

\* Tensor.masked_fill_(mask, value)
masked_fill(t, mask, value) ==
    [shape |-> t.shape,
     data |-> [i \in DOMAIN t.data |-> IF mask.data[i] THEN value ELSE t.data[i]]]

\* ~mask
invert(mask) ==
    [shape |-> mask.shape, data |-> [i \in DOMAIN mask.data |-> ~mask.data[i]]]

\* setattr(self, name, value) on an object held as a record
SetAttr(self, name, value) ==
    [f \in (DOMAIN self) \cup {name} |-> IF f = name THEN value ELSE self[f]]

\* --------------------------------------------------- NormalParamExtractor

\* a faulty constructor that stores the name unresolved (C7 depends on __init__)
NormalParamExtractor_init_lazy(scale_mapping, scale_lb) ==
    Ok([scale_mapping |-> scale_mapping, scale_lb |-> scale_lb])

\* NormalParamExtractor.__init__: the mapping is resolved here
NormalParamExtractor_init(scale_mapping, scale_lb) ==
    IF mappings_raises(scale_mapping)
    THEN Raise("UnknownMapping")
    ELSE Ok([scale_mapping |-> scale_mapping, scale_lb |-> scale_lb])

\* a faulty forward that takes loc and scale from the wrong halves (C8 depends on forward)
NormalParamExtractor_forward_swapped(self, tensor, others) ==
    IF Len(tensor.shape) = 0 THEN Raise("RuntimeError")
    ELSE LET pieces == chunk(tensor)
         IN IF Len(pieces) # 2 THEN Raise("ValueError")
            ELSE Ok(<<pieces[2],
                      clamp_min(MapTensor(self.scale_mapping, pieces[1]), self.scale_lb)>>
                    \o others)

\* NormalParamExtractor.forward(tensor, *others)
NormalParamExtractor_forward(self, tensor, others) ==
    IF Len(tensor.shape) = 0 THEN Raise("RuntimeError")
    ELSE LET pieces == chunk(tensor)
         IN IF Len(pieces) # 2 THEN Raise("ValueError")
            ELSE Ok(<<pieces[1],
                      clamp_min(MapTensor(self.scale_mapping, pieces[2]), self.scale_lb)>>
                    \o others)

\* -------------------------------------------- AddStateIndependentNormalScale

\* AddStateIndependentNormalScale.__init__; scale_shape is None, an int or a
\* tuple.  The mapping name is only stored.
AddStateIndependentNormalScale_init(scale_shape, scale_mapping, scale_lb, make_param, init_value) ==
    LET shape == CASE scale_shape.kind = "none" -> <<>>
                   [] scale_shape.kind = "int" -> <<scale_shape.n>>
                   [] scale_shape.kind = "tuple" -> scale_shape.dims
    IN Ok([scale_lb |-> scale_lb,
           scale_shape |-> shape,
           scale_mapping |-> scale_mapping,
           is_param |-> make_param,
           state_independent_scale |-> full(shape, init_value)])

\* AddStateIndependentNormalScale.forward(loc, *others)
AddStateIndependentNormalScale_forward(self, loc, others) ==
    IF self.scale_shape # slice_from(loc.shape, 0 - Len(self.scale_shape))
    THEN Raise("RuntimeError")
    ELSE IF ~can_expand(self.state_independent_scale, loc.shape)
    THEN Raise("RuntimeError")
    ELSE IF mappings_raises(self.scale_mapping)
    THEN Raise("UnknownMapping")
    ELSE Ok(<<loc,
              clamp_min(MapTensor(self.scale_mapping,
                                  expand(self.state_independent_scale, loc.shape)),
                        self.scale_lb)>>
            \o others)

\* ------------------------------------------------------------------- Delta

\* a faulty update that keeps a param already set (C6 depends on update)
update_keep_first(self, param) ==
    IF "param" \in DOMAIN self THEN self ELSE SetAttr(self, "param", param)

\* Delta.update(param)
update(self, param) == SetAttr(self, "param", param)

\* a faulty constructor that derives the shapes when either is empty (C10 depends on __init__)
Delta_init_derive_either(param, atol, rtol, batch_shape, event_shape) ==
    LET batch0 == IF batch_shape = None THEN <<>> ELSE batch_shape[1]
        event0 == IF event_shape = None THEN <<>> ELSE event_shape[1]
        self1 == update(<<>>, param)
        self2 == SetAttr(SetAttr(self1, "atol", atol), "rtol", rtol)
        derive == Len(batch0) = 0 \/ Len(event0) = 0
        batch1 == IF derive THEN slice_but_last(param.shape) ELSE batch0
        event1 == IF derive THEN slice_from(param.shape, 0 - 1) ELSE event0
    IN Ok(SetAttr(SetAttr(self2, "batch_shape", batch1), "event_shape", event1))

\* Delta.__init__; batch_shape and event_shape are None or Some(shape)
Delta_init(param, atol, rtol, batch_shape, event_shape) ==
    LET batch0 == IF batch_shape = None THEN <<>> ELSE batch_shape[1]
        event0 == IF event_shape = None THEN <<>> ELSE event_shape[1]
        self1 == update(<<>>, param)
        self2 == SetAttr(SetAttr(self1, "atol", atol), "rtol", rtol)
        derive == Len(batch0) = 0 /\ Len(event0) = 0
        batch1 == IF derive THEN slice_but_last(param.shape) ELSE batch0
        event1 == IF derive THEN slice_from(param.shape, 0 - 1) ELSE event0
    IN Ok(SetAttr(SetAttr(self2, "batch_shape", batch1), "event_shape", event1))

\* the loop of Delta._is_equal: is_equal.all(-j) for j = from .. len(event_shape)
RECURSIVE reduce_event_dims(_, _, _)
reduce_event_dims(is_equal, from, n) ==
    IF from > n THEN Ok(is_equal)
    ELSE IF ~all_accepts(is_equal, 0 - from) THEN Raise("IndexError")
    ELSE reduce_event_dims(all(is_equal, 0 - from), from + 1, n)

\* Delta._is_equal(value)
is_equal(self, value) ==
    IF ~can_expand(self.param, value.shape) THEN Raise("RuntimeError")
    ELSE LET param == expand(self.param, value.shape)
             close == [shape |-> value.shape,
                       data |-> [i \in DOMAIN value.data |->
                                   Abs(value.data[i] - param.data[i])
                                     < self.atol + self.rtol * Abs(param.data[i])]]
         IN reduce_event_dims(close, 1, Len(self.event_shape))

\* Delta.log_prob(value)
log_prob(self, value) ==
    LET eq == is_equal(self, value)
    IN IF eq.status # "ok" THEN eq
       ELSE LET out0 == full(eq.out.shape, 0)
                out1 == masked_fill(out0, eq.out, Inf)
            IN Ok(masked_fill(out1, invert(eq.out), 0 - Inf))

\* Delta.sample(sample_shape); sample_shape is None or Some(shape)
sample(self, sample_shape) ==
    LET shape == IF sample_shape = None THEN <<>> ELSE sample_shape[1]
    IN Ok(expand(self.param, shape \o self.param.shape))

\* Delta.rsample(sample_shape)
rsample(self, sample_shape) ==
    LET shape == IF sample_shape = None THEN <<>> ELSE sample_shape[1]
    IN Ok(expand(self.param, shape \o self.param.shape))

\* Delta.mode
mode(self) == Ok(self.param)

\* Delta.mean
mean(self) == Ok(self.param)

\* Delta.deterministic_sample
deterministic_sample(self) == Ok(self.param)

\* ------------------------------------------------------------------ inputs

\* entries of extractor inputs: -1.0 and 1.0
RawVals == {0 - Unit, Unit}
\* scale_lb: the default 1e-4, and 0.5
LowerBounds == {1, 5000}

LeadingShapes == {<<>>, <<2>>, <<1, 2>>}

ExtractorInputs ==
    TensorsOf(<<>>, RawVals)
    \cup UNION { TensorsOf(l \o <<n>>, RawVals) : l \in LeadingShapes, n \in 0..MaxLast }

\* pass-through tensors
AuxTensors == { full(<<1>>, 0), full(<<>>, Unit) }
OthersArgs == UNION { [1..k -> AuxTensors] : k \in 0..MaxOthers }

\* scale_shape arguments: the default, an int, tuples
ScaleShapeArgs ==
    { [kind |-> "none"], [kind |-> "int", n |-> 2],
      [kind |-> "tuple", dims |-> <<2>>], [kind |-> "tuple", dims |-> <<3, 2>>] }
\* init_value: the default 0.0, and -1.0
InitValues == {0, 0 - Unit}

LocShapes == {<<>>, <<2>>, <<3>>, <<3, 2>>}
LocInputs == UNION { TensorsOf(s, {0, Unit}) : s \in LocShapes }

\* Delta parameters, and the values given to log_prob
ParamShapes == {<<>>, <<2>>, <<2, 1>>}
ParamTensors == UNION { TensorsOf(s, 0..MaxVal) : s \in ParamShapes }
ValueTensors == ParamTensors \cup TensorsOf(<<2, 2, 1>>, 0..MaxVal)
BatchShapeArgs == {None, Some(<<>>), Some(<<2>>)}
EventShapeArgs == {None, Some(<<>>), Some(<<2>>), Some(<<2, 1>>)}
Rtols == {0, 1}
SampleShapeArgs == {None, Some(<<>>)} \cup { Some(<<k>>) : k \in 1..MaxSample }

\* ----------------------------------------------------------------- actions

Init ==
    /\ npe = None
    /\ sis = None
    /\ delta = None
    /\ latest = None
    /\ call = NoCall

\* the caller takes the returned tuple (or the raised error)
Return ==
    /\ call.op # "idle"
    /\ call' = NoCall
    /\ UNCHANGED <<npe, sis, delta, latest>>

NewExtractor ==
    /\ call.op = "idle"
    /\ \E m \in MappingNames, lb \in LowerBounds :
         LET r == NormalParamExtractor_init(m, lb)
         IN /\ npe' = IF r.status = "ok" THEN Some(r.out) ELSE npe
            /\ call' = [op |-> "NormalParamExtractor", args |-> <<m, lb>>, result |-> r]
    /\ UNCHANGED <<sis, delta, latest>>

Extract ==
    /\ call.op = "idle"
    /\ npe # None
    /\ \E t \in ExtractorInputs, o \in OthersArgs :
         call' = [op |-> "extract", args |-> <<t, o>>,
                  result |-> NormalParamExtractor_forward(npe[1], t, o)]
    /\ UNCHANGED <<npe, sis, delta, latest>>

NextExtractor == NewExtractor \/ Extract \/ Return

SpecExtractor == Init /\ [][NextExtractor]_vars

NewScale ==
    /\ call.op = "idle"
    /\ \E sh \in ScaleShapeArgs, m \in MappingNames, lb \in LowerBounds,
          mp \in BOOLEAN, iv \in InitValues :
         LET r == AddStateIndependentNormalScale_init(sh, m, lb, mp, iv)
         IN /\ sis' = IF r.status = "ok" THEN Some(r.out) ELSE sis
            /\ call' = [op |-> "AddStateIndependentNormalScale",
                        args |-> <<sh, m, lb, mp, iv>>, result |-> r]
    /\ UNCHANGED <<npe, delta, latest>>

Apply ==
    /\ call.op = "idle"
    /\ sis # None
    /\ \E loc \in LocInputs, o \in OthersArgs :
         call' = [op |-> "apply", args |-> <<loc, o>>,
                  result |-> AddStateIndependentNormalScale_forward(sis[1], loc, o)]
    /\ UNCHANGED <<npe, sis, delta, latest>>

NextScale == NewScale \/ Apply \/ Return

SpecScale == Init /\ [][NextScale]_vars

NextConfig == NewExtractor \/ NewScale \/ Apply \/ Return

SpecConfig == Init /\ [][NextConfig]_vars

NewDelta ==
    /\ call.op = "idle"
    /\ \E p \in ParamTensors, rt \in Rtols, b \in BatchShapeArgs, e \in EventShapeArgs :
         LET r == Delta_init(p, 1, rt, b, e)
         IN /\ delta' = IF r.status = "ok" THEN Some(r.out) ELSE delta
            /\ latest' = IF r.status = "ok"
                          THEN Some([param |-> p, by |-> "Delta"]) ELSE latest
            /\ call' = [op |-> "Delta", args |-> <<p, 1, rt, b, e>>, result |-> r]
    /\ UNCHANGED <<npe, sis>>

Update ==
    /\ call.op = "idle"
    /\ delta # None
    /\ \E p \in ParamTensors :
         /\ delta' = Some(update(delta[1], p))
         /\ latest' = Some([param |-> p, by |-> "update"])
         /\ call' = [op |-> "update", args |-> <<p>>, result |-> Ok(None)]
    /\ UNCHANGED <<npe, sis>>

Sample ==
    /\ call.op = "idle"
    /\ delta # None
    /\ \E ss \in SampleShapeArgs :
         call' = [op |-> "sample", args |-> <<ss>>, result |-> sample(delta[1], ss)]
    /\ UNCHANGED <<npe, sis, delta, latest>>

RSample ==
    /\ call.op = "idle"
    /\ delta # None
    /\ \E ss \in SampleShapeArgs :
         call' = [op |-> "rsample", args |-> <<ss>>, result |-> rsample(delta[1], ss)]
    /\ UNCHANGED <<npe, sis, delta, latest>>

Mode ==
    /\ call.op = "idle"
    /\ delta # None
    /\ call' = [op |-> "mode", args |-> <<>>, result |-> mode(delta[1])]
    /\ UNCHANGED <<npe, sis, delta, latest>>

Mean ==
    /\ call.op = "idle"
    /\ delta # None
    /\ call' = [op |-> "mean", args |-> <<>>, result |-> mean(delta[1])]
    /\ UNCHANGED <<npe, sis, delta, latest>>

DeterministicSample ==
    /\ call.op = "idle"
    /\ delta # None
    /\ call' = [op |-> "deterministic_sample", args |-> <<>>,
                result |-> deterministic_sample(delta[1])]
    /\ UNCHANGED <<npe, sis, delta, latest>>

LogProb ==
    /\ call.op = "idle"
    /\ delta # None
    /\ \E v \in ValueTensors :
         call' = [op |-> "log_prob", args |-> <<v>>, result |-> log_prob(delta[1], v)]
    /\ UNCHANGED <<npe, sis, delta, latest>>

NextDelta ==
    \/ NewDelta \/ Update \/ Sample \/ RSample \/ Mode \/ Mean
    \/ DeterministicSample \/ LogProb \/ Return

SpecDelta == Init /\ [][NextDelta]_vars

\* ------------------------------------------------------------------ claims

\* the extractor input of the current call has an even last dimension
EvenInput ==
    /\ call.op = "extract"
    /\ Len(call.args[1].shape) >= 1
    /\ call.args[1].shape[Len(call.args[1].shape)] % 2 = 0

\* the extractor input of the current call has an odd last dimension
OddInput ==
    /\ call.op = "extract"
    /\ Len(call.args[1].shape) >= 1
    /\ call.args[1].shape[Len(call.args[1].shape)] % 2 = 1

\* C1: for every mapping and every input with an even last dimension, extract
\* returns a scale whose every element is at least the configured scale_lb.
C1_ScaleAtLeastLowerBound ==
    EvenInput =>
        /\ call.result.status = "ok"
        /\ \A i \in DOMAIN call.result.out[2].data :
             call.result.out[2].data[i] >= npe[1].scale_lb

\* an extract call in which the clamp raised one element to scale_lb and left
\* another above it
C1_Witness ==
    /\ EvenInput
    /\ call.result.status = "ok"
    /\ \E i, j \in DOMAIN call.result.out[2].data :
         /\ call.result.out[2].data[i] = npe[1].scale_lb
         /\ call.result.out[2].data[j] > npe[1].scale_lb

\* C2: extract fails with an error whenever the last dimension of the input
\* has odd size.
C2_OddLastDimensionFails ==
    OddInput => call.result.status = "error"

TrailingDiffers(loc, scale_shape) ==
    \/ Len(loc.shape) < Len(scale_shape)
    \/ SubSeq(loc.shape, Len(loc.shape) - Len(scale_shape) + 1, Len(loc.shape))
         # scale_shape

\* an apply call on an instance whose mapping name the registry knows
ApplyKnown ==
    /\ call.op = "apply"
    /\ sis[1].scale_mapping \in KnownMappings

\* the scale the claims describe: the state broadcast over the leading dimensions
ScaleAsClaimed(self, loc, scale) ==
    LET n == Len(self.scale_shape)
        r == Len(loc.shape)
    IN /\ scale.shape = loc.shape
       /\ \A i \in Idx(loc.shape) :
            scale.data[i] =
                Max2(mappings(self.scale_mapping,
                              self.state_independent_scale.data[SubSeq(i, r - n + 1, r)]),
                     self.scale_lb)

\* C3: with the default (empty) scale_shape, apply succeeds for a loc of any
\* shape and returns a scale of loc's shape, every element
\* max(mapping(state), scale_lb).
C3_DefaultScaleShapeAnyLoc ==
    (ApplyKnown /\ sis[1].scale_shape = <<>>) =>
        /\ call.result.status = "ok"
        /\ ScaleAsClaimed(sis[1], call.args[1], call.result.out[2])

\* C4: apply fails exactly when the last Len(scale_shape) dimensions of loc
\* differ from scale_shape, and otherwise returns (loc, scale, *passthrough).
C4_FailsExactlyOnTrailingMismatch ==
    ApplyKnown =>
        /\ call.result.status = "error"
             <=> TrailingDiffers(call.args[1], sis[1].scale_shape)
        /\ call.result.status = "ok" =>
             /\ call.result.out[1] = call.args[1]
             /\ SubSeq(call.result.out, 3, Len(call.result.out)) = call.args[2]

\* C9: for any scale_shape and a loc whose trailing dimensions equal it, apply
\* returns a scale of loc's shape, identical across the leading dimensions, each
\* element max(mapping(state[trailing index]), scale_lb).
C9_ScaleBroadcastOverBatch ==
    (ApplyKnown /\ ~TrailingDiffers(call.args[1], sis[1].scale_shape)) =>
        /\ call.result.status = "ok"
        /\ ScaleAsClaimed(sis[1], call.args[1], call.result.out[2])

\* C7 as stated: no instance of either component holds a mapping name the
\* registry does not know.
C7_NoInstanceWithUnknownMapping ==
    /\ npe # None => npe[1].scale_mapping \in KnownMappings
    /\ sis # None => sis[1].scale_mapping \in KnownMappings

\* C7, amended: an unknown mapping name fails the construction of a
\* NormalParamExtractor, so none ever holds one; an
\* AddStateIndependentNormalScale holding one never returns a scale: apply
\* raises the shape error, or else the unknown-mapping error.
C7_UnknownMappingFailsAtConstructionOrFirstUse ==
    /\ npe # None => npe[1].scale_mapping \in KnownMappings
    /\ (call.op = "NormalParamExtractor" /\ call.args[1] \notin KnownMappings) =>
         call.result = Raise("UnknownMapping")
    /\ (call.op = "apply" /\ sis[1].scale_mapping \notin KnownMappings) =>
         /\ call.result.status = "error"
         /\ call.result.error \in {"RuntimeError", "UnknownMapping"}

\* an extractor exists, and an apply call on a scale module built with an
\* unknown mapping name raised the unknown-mapping error
C7_Witness ==
    /\ npe # None
    /\ call.op = "apply"
    /\ sis[1].scale_mapping \notin KnownMappings
    /\ call.result.status = "error"
    /\ call.result.error = "UnknownMapping"

\* C5: log_prob returns value's shape without the event dimensions, each entry
\* +inf when every element of its event block is within tolerance of param and
\* -inf otherwise.
C5_LogProbInfiniteByEventBlock ==
    (/\ call.op = "log_prob"
     /\ can_expand(delta[1].param, call.args[1].shape)
     /\ Len(call.args[1].shape) >= Len(delta[1].event_shape)) =>
        LET d == delta[1]
            v == call.args[1]
            p == expand(d.param, v.shape)
            nb == Len(v.shape) - Len(d.event_shape)
            bshape == SubSeq(v.shape, 1, nb)
            eshape == SubSeq(v.shape, nb + 1, Len(v.shape))
            within(i) == Abs(v.data[i] - p.data[i]) < d.atol + d.rtol * Abs(p.data[i])
            res == call.result
        IN /\ res.status = "ok"
           /\ res.out.shape = bshape
           /\ \A b \in Idx(bshape) :
                res.out.data[b] =
                    IF \A e \in Idx(eshape) : within(b \o e) THEN Inf ELSE 0 - Inf

\* the fields of a Delta other than param
DeltaRest(d) == <<d.atol, d.rtol, d.batch_shape, d.event_shape>>

\* C6: sample, rsample, mode, mean and deterministic_sample return the param of
\* the most recent update (the constructor's if there was none); update changes
\* param only; the read operations change nothing.
C6_ReadsReturnLatestParam ==
    [][/\ call'.op \in {"sample", "rsample"} =>
            LET ss == IF call'.args[1] = None THEN <<>> ELSE call'.args[1][1]
                q == latest[1].param
                out == call'.result.out
            IN /\ delta' = delta
               /\ call'.result.status = "ok"
               /\ out.shape = ss \o q.shape
               /\ \A i \in Idx(out.shape) :
                    out.data[i] = q.data[SubSeq(i, Len(ss) + 1, Len(i))]
               /\ ss = <<>> => out = q
       /\ call'.op \in {"mode", "mean", "deterministic_sample"} =>
            /\ delta' = delta
            /\ call'.result = Ok(latest[1].param)
       /\ call'.op = "log_prob" => delta' = delta
       /\ call'.op = "update" =>
            /\ delta'[1].param = call'.args[1]
            /\ DeltaRest(delta'[1]) = DeltaRest(delta[1])
      ]_vars

\* a sample call after an update that replaced the constructor's param
C6_Witness ==
    /\ call.op = "sample"
    /\ latest[1].by = "update"
    /\ call.args[1] = None
    /\ call.result.out = latest[1].param
    /\ call.result.out.shape = <<>>
    /\ delta[1].batch_shape = <<2>>
    /\ delta[1].event_shape = <<1>>

\* C10 as stated: every constructed Delta has batch_shape + event_shape equal
\* to param.shape.
C10_ShapesMatchParam ==
    call.op = "Delta" =>
        delta[1].batch_shape \o delta[1].event_shape = delta[1].param.shape

\* C10, amended: with both shapes unspecified (or empty) they are
\* param.shape[:-1] and param.shape[-1:], which concatenate to param.shape;
\* otherwise both are kept as given, an unspecified one as the empty shape.
C10_ShapesDerivedOrAsGiven ==
    call.op = "Delta" =>
        LET p == call.args[1]
            b == IF call.args[4] = None THEN <<>> ELSE call.args[4][1]
            e == IF call.args[5] = None THEN <<>> ELSE call.args[5][1]
            d == delta[1]
            r == Len(p.shape)
        IN /\ call.result.status = "ok"
           /\ d.param = p
           /\ IF b = <<>> /\ e = <<>>
              THEN /\ d.batch_shape = SubSeq(p.shape, 1, r - 1)
                   /\ d.event_shape = SubSeq(p.shape, Max2(r, 1), r)
                   /\ d.batch_shape \o d.event_shape = p.shape
              ELSE /\ d.batch_shape = b
                   /\ d.event_shape = e

\* a Delta built from a 2-dimensional param with both shapes unspecified
C10_Witness ==
    /\ call.op = "Delta"
    /\ call.args[4] = None
    /\ call.args[5] = None
    /\ call.args[1].shape = <<2, 1>>
    /\ delta[1].batch_shape = <<2>>
    /\ delta[1].event_shape = <<1>>

====
